---- MODULE Spec2Model ----
(***************************************************************************)
(* Model of recursiveSearch.ps1: resolution of the scopes to search (the   *)
(* live file share and/or its snapshots) and the breadth-first traversal   *)
(* of each resolved scope with the three match behaviours; and of the      *)
(* search command of src/index.ts: validation of its options and the       *)
(* initialisation of the cache database (DefaultCacheDb.init).             *)
(*                                                                         *)
(* Strings are sequences of one-character strings, so that concatenation,  *)
(* prefix tests and the case-insensitive comparison of PowerShell's -eq    *)
(* are computed rather than assumed.                                       *)
(***************************************************************************)
EXTENDS Integers, Sequences, FiniteSets, TLC

(***************************************************************************)
(* Bounds of the model.                                                    *)
(***************************************************************************)
\* Longest share listing the storage account returns.
MaxShares == 3
\* Total number of directory entries the remote returns during one run.
MaxEntries == 3

\* Snapshot times of the model (any totally ordered values do).
SnapshotTimes == {1, 2}

\* $null, as the SnapshotTime of the live share (recursiveSearch.ps1:280).
Null == 0

(***************************************************************************)
(* Strings.                                                                *)
(***************************************************************************)
Slash == "/"

\* Lower-casing of one character, over the characters the model uses.
ToLowerChar(c) ==
    CASE c = "A" -> "a"
      [] c = "B" -> "b"
      [] c = "T" -> "t"
      [] c = "X" -> "x"
      [] OTHER -> c

ToLower(s) == [i \in 1..Len(s) |-> ToLowerChar(s[i])]

\* A plausible slip: the case-sensitive comparison (-ceq).
StrEq_ordinal(a, b) == a = b

\* PowerShell's -eq on two strings: equal when they agree ignoring letter case.
StrEq(a, b) == ToLower(a) = ToLower(b)

\* The service's prefix filter (Get-AzStorageShare -Prefix).
StartsWith(s, prefix) ==
    /\ Len(prefix) <= Len(s)
    /\ SubSeq(s, 1, Len(prefix)) = prefix

(***************************************************************************)
(* Inputs: the shares of the storage account and the directory entries     *)
(* the remote lists.                                                       *)
(***************************************************************************)
\* Share names (lower case, as the naming grammar of the service requires):
\* the requested share and one whose name merely starts with it.
ShareNames == {<<"a">>, <<"a", "b">>}

\* Values of -FileShareName; the script does not validate its case.
RequestNames == {<<"a">>, <<"A">>}

\* Values of -TargetItemName.
TargetNames == {<<"t">>}

\* Names of directory entries: the target, the target in another case, and
\* a name that merely starts with the target.
EntryNames == {<<"t">>, <<"T">>, <<"t", "x">>}

\* The script is an advanced one ([CmdletBinding()], line 88): the caller's
\* -ErrorAction sets its $ErrorActionPreference, "Continue" when not given.
DefaultErrorAction == "Continue"
ErrorActions == {"Continue", "Stop"}

SearchScopes == {"FileShare", "FileShareSnapshots", "Both"}
MatchBehaviors == {"End", "ScopeEnd", "Continue"}

\* A share as Get-AzStorageShare returns it: the live share or a snapshot.
LiveShare(n, d) ==
    [Name |-> n, IsSnapshot |-> FALSE, SnapshotTime |-> Null, IsDeleted |-> d]

SnapshotShare(n, t, d) ==
    [Name |-> n, IsSnapshot |-> TRUE, SnapshotTime |-> t, IsDeleted |-> d]

ShareRecords ==
    {LiveShare(n, d) : n \in ShareNames, d \in BOOLEAN}
        \cup {SnapshotShare(n, t, d) :
                n \in ShareNames, t \in SnapshotTimes, d \in BOOLEAN}

\* The account of a whole run, in the order the service lists it: the
\* requested share, two snapshots of it (the older one listed first) and a
\* deleted share of the same name.
RunShares ==
    << SnapshotShare(<<"a">>, 1, FALSE),
       LiveShare(<<"a">>, TRUE),
       SnapshotShare(<<"a">>, 2, FALSE),
       LiveShare(<<"a">>, FALSE) >>

\* The elements of seq at the positions in S, in order.
RECURSIVE SubSequence(_, _, _)
SubSequence(seq, S, i) ==
    IF i > Len(seq) THEN <<>>
    ELSE (IF i \in S THEN <<seq[i]>> ELSE <<>>) \o SubSequence(seq, S, i + 1)

\* The accounts of a whole run: any MaxShares or fewer of RunShares.
RunListings ==
    {SubSequence(RunShares, S, 1) :
        S \in {T \in SUBSET (1..Len(RunShares)) : Cardinality(T) <= MaxShares}}

IsInjective(seq) ==
    \A i, j \in 1..Len(seq) : seq[i] = seq[j] => i = j

\* The listings an account may return: distinct shares of U, in any order.
AccountListings(U) ==
    {l \in UNION {[1..k -> U] : k \in 0..MaxShares} : IsInjective(l)}

\* A directory entry as GetFilesAndDirectories returns it.
Entries == [Name : EntryNames, IsDirectory : BOOLEAN]

\* The service keeps names unique within a directory, ignoring case.
SiblingsDistinct(items) ==
    \A i, j \in 1..Len(items) :
        ToLower(items[i].Name) = ToLower(items[j].Name) => i = j

\* The replies the remote may give to one listing call, of at most n entries.
DirectoryListings(n) ==
    {l \in UNION {[1..k -> Entries] : k \in 0..n} : SiblingsDistinct(l)}

(***************************************************************************)
(* State.                                                                  *)
(***************************************************************************)
VARIABLES
    shares,          \* the shares of the storage account, in listing order
    FileShareName,   \* -FileShareName
    TargetItemName,  \* -TargetItemName
    SearchScope,     \* -SearchScope
    MatchBehavior,   \* -MatchBehavior
    ErrorActionPreference, \* $ErrorActionPreference of the script
    pc,              \* position of the script
    error,           \* the terminating error, "none" while there is none
    targetScopes,    \* $targetScopes
    scopeIdx,        \* position of the foreach over $targetScopes
    queue,           \* $queue
    dirPath,         \* $dirPath
    dirEnum,         \* what is left of $dirEnum for the inner foreach
    shouldBreak,     \* $shouldBreak
    output,          \* the objects written by Write-Output, in order
    listings,        \* the listing calls made and their replies, in order
    items,           \* the children processed (Write-Debug "Item: ..."), in order
    failures,        \* the listing calls that failed, in order
    args,            \* index.ts: the options handed to the search command
    cpc,             \* index.ts: position of the search command
    store,           \* index.ts: the cache directory and database file
    connection,      \* index.ts: DefaultCacheDb.connection
    mkdirPromise,    \* index.ts: the promise FileSystem.mkdir returned
    initResult,      \* index.ts: what init returned (or threw)
    executed,        \* index.ts: the statements run on the connection, in order
    expectedColumns, \* index.ts: columnsMatch's first argument
    sqliteSchema,    \* index.ts: the rows PRAGMA table_info returned
    verdict          \* index.ts: outcome of parsing and matching those rows

\* The variables of recursiveSearch.ps1.
scriptVars ==
        <<shares, FileShareName, TargetItemName, SearchScope, MatchBehavior,
          ErrorActionPreference, pc, error, targetScopes, scopeIdx, queue,
          dirPath, dirEnum, shouldBreak, output, listings, items, failures>>

\* The variables of the search command and of init.
cacheVars == <<args, cpc, store, connection, mkdirPromise, initResult, executed>>

\* The variables of one run of the schema matching.
matchVars == <<expectedColumns, sqliteSchema, verdict>>

\* The variables of index.ts.
tsVars == <<cacheVars, matchVars>>

vars == <<scriptVars, tsVars>>

params ==
    <<shares, FileShareName, TargetItemName, SearchScope, MatchBehavior,
      ErrorActionPreference>>

(***************************************************************************)
(* Scope resolution (recursiveSearch.ps1, lines 196-237).  A pipeline that *)
(* yields nothing assigns $null; here that is the empty sequence.          *)
(***************************************************************************)
\* Get-AzStorageShare -Prefix $FileShareName: the service's prefix filter.
GetAzStorageShare ==
    SelectSeq(shares, LAMBDA s : StartsWith(s.Name, FileShareName))

\* A plausible slip: trusting the prefix filter, keeping only the IsDeleted test.
fileSharesMatchingName_prefix ==
    SelectSeq(GetAzStorageShare, LAMBDA s : ~s.IsDeleted)

\* Where-Object { $_.Name -eq $FileShareName -and !$_.IsDeleted } | Tee-Object
fileSharesMatchingName ==
    SelectSeq(GetAzStorageShare,
              LAMBDA s : StrEq(s.Name, FileShareName) /\ ~s.IsDeleted)

\* ... | Where-Object { !$_.IsSnapshot }
fileShare ==
    SelectSeq(fileSharesMatchingName, LAMBDA s : ~s.IsSnapshot)

\* A plausible slip: testing the teed variable instead of $fileShare.
ShareNotFound_anyScope == fileSharesMatchingName = <<>>

\* if ($null -eq $fileShare)
ShareNotFound == fileShare = <<>>

\* Insertion of one share into a sequence sorted by SnapshotTime, descending.
RECURSIVE InsertDescending(_, _)
InsertDescending(s, sorted) ==
    IF sorted = <<>> THEN <<s>>
    ELSE IF s.SnapshotTime >= Head(sorted).SnapshotTime THEN <<s>> \o sorted
         ELSE <<Head(sorted)>> \o InsertDescending(s, Tail(sorted))

RECURSIVE SortDescending(_)
SortDescending(seq) ==
    IF seq = <<>> THEN <<>>
    ELSE InsertDescending(Head(seq), SortDescending(Tail(seq)))

\* A plausible slip: the snapshots left in listing order (no Sort-Object).
SortSnapshots_unsorted(seq) == seq

\* Sort-Object -Property SnapshotTime -Descending
SortSnapshots(seq) == SortDescending(seq)

\* $fileShareSnapshots
fileShareSnapshots ==
    SortSnapshots(SelectSeq(fileSharesMatchingName, LAMBDA s : s.IsSnapshot))

\* A plausible slip: the live share added for every search scope.
IncludesLive_always == TRUE

\* if ($SearchScope -eq "FileShare" -or $SearchScope -eq "Both")
IncludesLive == SearchScope \in {"FileShare", "Both"}

\* if ($SearchScope -eq "FileShareSnapshots" -or $SearchScope -eq "Both")
IncludesSnapshots == SearchScope \in {"FileShareSnapshots", "Both"}

\* A plausible slip: the check for missing snapshots left out.
NoSnapshots_unchecked == FALSE

\* if ($SearchScope -eq "FileShareSnapshots") { if ($null -eq $fileShareSnapshots)
NoSnapshots ==
    /\ SearchScope = "FileShareSnapshots"
    /\ fileShareSnapshots = <<>>

\* $targetScopes after lines 214-237.
ResolvedScopes ==
    (IF IncludesLive THEN fileShare ELSE <<>>)
        \o (IF IncludesSnapshots THEN fileShareSnapshots ELSE <<>>)

(***************************************************************************)
(* Traversal helpers (recursiveSearch.ps1, lines 243-303).                 *)
(***************************************************************************)
\* $queue.Enqueue("/")
RootPath == <<Slash>>

\* A plausible slip: a separator added although $dirPath already ends in one.
ChildPath_separator(dir, name) == dir \o <<Slash>> \o name

\* $path = "$dirPath$($dirItem.Name)"
ChildPath(dir, name) == dir \o name

\* $queue.Enqueue("$path/")
QueuedPath(path) == path \o <<Slash>>

\* if ($dirItem.Name -eq $TargetItemName)
ItemMatches(name) == StrEq(name, TargetItemName)

\* A plausible slip: End handled like ScopeEnd (no break, queue kept).
BreaksListing_never(mb) == FALSE

\* The End branch: $queue.Clear(); break
BreaksListing(mb) == mb = "End"

\* A plausible slip: ScopeEnd not setting $shouldBreak.
SetsShouldBreak_endOnly(mb) == mb = "End"

\* A plausible slip: $shouldBreak set on every match, whatever the behaviour.
SetsShouldBreak_always(mb) == TRUE

\* A plausible slip: $shouldBreak left unset.
SetsShouldBreak_never(mb) == FALSE

\* The End and ScopeEnd branches: $shouldBreak = $true
SetsShouldBreak(mb) == mb \in {"End", "ScopeEnd"}

\* A plausible slip: $shouldBreak set outside the match test, on any entry.
StopDecision_anyEntry(matched, mb) == SetsShouldBreak(mb)

\* Lines 275-291: $shouldBreak = $true is inside the match test.
StopDecision(matched, mb) == matched /\ SetsShouldBreak(mb)

\* A plausible slip: the head read and left in the queue (Peek).
Dequeued_peek(q) == q

\* Line 255: $queue.Dequeue() removes the head it returns.
Dequeued(q) == Tail(q)

\* A plausible slip: a stack in place of the queue (depth-first order).
Enqueue_front(q, path) == <<path>> \o q

\* Line 295: $queue.Enqueue(...) adds at the end; line 255 dequeues the head.
Enqueue(q, path) == Append(q, path)

\* A plausible slip: the enqueue placed in the else of the match test.
EnqueuesChild_unmatchedOnly(dirItem, matched) ==
    dirItem.IsDirectory /\ ~matched

\* Lines 294-296: if ($dirItem.IsDirectory) { $queue.Enqueue("$path/") },
\* after the match test and outside it.
EnqueuesChild(dirItem, matched) == dirItem.IsDirectory

\* The object written by Write-Output for a match in the current scope.
MatchObject(path) ==
    [FileShareName |-> FileShareName,
     SnapshotTime |-> targetScopes[scopeIdx].SnapshotTime,
     Path |-> path]

\* Number of entries the remote has returned so far.
RECURSIVE EntriesListed(_)
EntriesListed(ls) ==
    IF ls = <<>> THEN 0 ELSE Len(Head(ls).items) + EntriesListed(Tail(ls))

(***************************************************************************)
(* Initial states.                                                         *)
(***************************************************************************)
\* index.ts before the search command is run, with no cache directory.
CacheOff ==
    /\ args = [fileShare |-> <<>>, targetItem |-> <<>>, others |-> FALSE]
    /\ cpc = "off"
    /\ store = [directory |-> FALSE,
                FileShares |-> [columns |-> <<>>, rows |-> 0],
                FileSystemEntries |-> [columns |-> <<>>, rows |-> 0]]
    /\ connection = "null"
    /\ mkdirPromise = "none"
    /\ initResult = [success |-> FALSE, failureType |-> "none", text |-> <<>>]
    /\ executed = <<>>

\* No table read or matched yet.
MatchOff ==
    /\ expectedColumns = <<>>
    /\ sqliteSchema = <<>>
    /\ verdict = "none"

NotStarted == CacheOff /\ MatchOff

\* The script's variables before line 196.
ScriptStarted ==
    /\ pc = "start"
    /\ error = "none"
    /\ targetScopes = <<>>
    /\ scopeIdx = 1
    /\ queue = <<>>
    /\ dirPath = <<>>
    /\ dirEnum = <<>>
    /\ shouldBreak = FALSE
    /\ output = <<>>
    /\ listings = <<>>
    /\ items = <<>>
    /\ failures = <<>>

\* The script before line 196, for given parameters; it has no part in
\* index.ts and leaves its state alone.
Started == ScriptStarted /\ NotStarted

\* The script not run: index.ts does not call it.
ScriptOff ==
    /\ shares = <<>>
    /\ FileShareName = <<"a">>
    /\ TargetItemName = <<"t">>
    /\ SearchScope = "FileShare"
    /\ MatchBehavior = "End"
    /\ ErrorActionPreference = DefaultErrorAction
    /\ ScriptStarted

\* A whole run.  The order of the account's listing matters to scope
\* resolution only, which InitResolve takes in every order.
Init ==
    /\ shares \in RunListings
    /\ FileShareName \in RequestNames
    /\ TargetItemName \in TargetNames
    /\ SearchScope \in SearchScopes
    /\ MatchBehavior \in MatchBehaviors
    /\ ErrorActionPreference = DefaultErrorAction
    /\ Started

\* Scope resolution alone: any account, with other shares and deleted ones.
InitResolve ==
    /\ shares \in AccountListings(ShareRecords)
    /\ FileShareName \in RequestNames
    /\ TargetItemName \in TargetNames
    /\ SearchScope \in SearchScopes
    /\ MatchBehavior = "ScopeEnd"
    /\ ErrorActionPreference = DefaultErrorAction
    /\ Started

(***************************************************************************)
(* Actions.                                                                *)
(***************************************************************************)
\* Lines 196-237: enumerate the shares and build $targetScopes, or stop with
\* a terminating error (Write-Error -ErrorAction Stop).
ResolveScopes ==
    /\ pc = "start"
    /\ IF ShareNotFound
       THEN /\ error' = "ShareNotFound"
            /\ pc' = "failed"
            /\ targetScopes' = targetScopes
       ELSE IF NoSnapshots
            THEN /\ error' = "NoSnapshots"
                 /\ pc' = "failed"
                 /\ targetScopes' = targetScopes
            ELSE /\ error' = error
                 /\ pc' = "scopes"
                 /\ targetScopes' = ResolvedScopes
    /\ UNCHANGED <<tsVars, params, failures, scopeIdx, queue, dirPath, dirEnum, shouldBreak,
                   output, listings, items>>

\* Lines 243-252: the foreach takes the next scope and seeds its queue.
BeginScope ==
    /\ pc = "scopes"
    /\ scopeIdx <= Len(targetScopes)
    /\ queue' = <<RootPath>>
    /\ shouldBreak' = FALSE
    /\ pc' = "while"
    /\ UNCHANGED <<tsVars, params, failures, error, targetScopes, scopeIdx, dirPath, dirEnum,
                   output, listings, items>>

\* Line 243: the foreach has no scope left; the script ends.
EndOfScopes ==
    /\ pc = "scopes"
    /\ scopeIdx > Len(targetScopes)
    /\ pc' = "done"
    /\ UNCHANGED <<tsVars, params, failures, error, targetScopes, scopeIdx, queue, dirPath,
                   dirEnum, shouldBreak, output, listings, items>>

\* Lines 254-270: dequeue a directory and list it on the remote.  The reply
\* is any listing within the entries left to the run; the call is taken to
\* succeed (line 241 builds the shared-key credential for a fixed account
\* name, so this is the case of a run against that account).
ListDirectory ==
    /\ pc = "while"
    /\ queue # <<>>
    /\ \E reply \in DirectoryListings(MaxEntries - EntriesListed(listings)) :
        /\ dirPath' = Head(queue)
        /\ queue' = Dequeued(queue)
        /\ dirEnum' = reply
        /\ listings' = Append(listings,
                [scope |-> scopeIdx, dirPath |-> Head(queue), items |-> reply])
        /\ pc' = IF reply = <<>> THEN "while" ELSE "foreach"
    /\ UNCHANGED <<tsVars, params, failures, error, targetScopes, scopeIdx, shouldBreak,
                   output, items>>

\* Lines 271-297: one iteration of the foreach over the listing.
ProcessItem ==
    /\ pc = "foreach"
    /\ dirEnum # <<>>
    /\ LET dirItem == Head(dirEnum)
           path == ChildPath(dirPath, dirItem.Name)
           matched == ItemMatches(dirItem.Name)
       IN  /\ items' = Append(items,
                    [scope |-> scopeIdx, dirPath |-> dirPath, path |-> path,
                     Name |-> dirItem.Name, IsDirectory |-> dirItem.IsDirectory])
           /\ output' = IF matched THEN Append(output, MatchObject(path))
                        ELSE output
           /\ dirEnum' = Tail(dirEnum)
           /\ shouldBreak' =
                (shouldBreak \/ StopDecision(matched, MatchBehavior))
           /\ IF matched /\ BreaksListing(MatchBehavior)
              THEN /\ queue' = <<>>
                   /\ pc' = "while"
              ELSE /\ queue' = IF EnqueuesChild(dirItem, matched)
                               THEN Enqueue(queue, QueuedPath(path))
                               ELSE queue
                   /\ pc' = IF Tail(dirEnum) = <<>> THEN "while" ELSE "foreach"
    /\ UNCHANGED <<tsVars, params, failures, error, targetScopes, scopeIdx, dirPath, listings>>

\* Lines 254, 300-302: the queue is empty; break out of the scope loop when
\* $shouldBreak is set, else go on to the next scope.
EndScope ==
    /\ pc = "while"
    /\ queue = <<>>
    /\ IF shouldBreak
       THEN /\ pc' = "done"
            /\ scopeIdx' = scopeIdx
       ELSE /\ pc' = "scopes"
            /\ scopeIdx' = scopeIdx + 1
    /\ UNCHANGED <<tsVars, params, failures, error, targetScopes, queue, dirPath, dirEnum,
                   shouldBreak, output, listings, items>>

Next ==
    \/ ResolveScopes
    \/ BeginScope
    \/ EndOfScopes
    \/ ListDirectory
    \/ ProcessItem
    \/ EndScope

Spec == Init /\ [][Next]_vars

NextResolve == ResolveScopes

SpecResolve == InitResolve /\ [][NextResolve]_vars

\* A whole run for the share named as the service names it (the resolution
\* of a name in another case is the matter of InitResolve), on an account
\* that lists two shares or fewer: two scopes at most.
InitLive ==
    /\ shares \in {l \in RunListings : Len(l) <= 2}
    /\ FileShareName = <<"a">>
    /\ TargetItemName \in TargetNames
    /\ SearchScope \in SearchScopes
    /\ MatchBehavior \in MatchBehaviors
    /\ ErrorActionPreference = DefaultErrorAction
    /\ Started

\* The script is one sequential program that the host runs to its end: a
\* step that can be taken is taken.
SpecLive == InitLive /\ [][Next]_vars /\ WF_vars(Next)

(***************************************************************************)
(* A run against a remote that may fail listing calls.                     *)
(***************************************************************************)
\* Listing calls the remote fails in one run, at most.
MaxFailures == 1

\* A whole run, under either error preference.
InitFail ==
    /\ shares \in RunListings
    /\ FileShareName \in RequestNames
    /\ TargetItemName \in TargetNames
    /\ SearchScope \in SearchScopes
    /\ MatchBehavior \in MatchBehaviors
    /\ ErrorActionPreference \in ErrorActions
    /\ ScriptStarted
    /\ NotStarted

\* Lines 254-271 when the remote fails the listing.  GetFilesAndDirectories
\* returns a lazy Pageable: the request is made by the foreach (line 271),
\* whose exception ends that statement, nothing of the listing processed.
\* No try or trap encloses it: under "Stop" the error ends the script, under
\* "Continue" it is written to the error stream and the while loop goes on
\* with the next queued directory.
ListingFails ==
    /\ pc = "while"
    /\ queue # <<>>
    /\ Len(failures) < MaxFailures
    /\ dirPath' = Head(queue)
    /\ queue' = Dequeued(queue)
    /\ dirEnum' = <<>>
    /\ failures' = Append(failures,
            [scope |-> scopeIdx, dirPath |-> Head(queue),
             listed |-> Len(listings), output |-> output])
    /\ IF ErrorActionPreference = "Stop"
       THEN /\ pc' = "halted"
            /\ error' = "ListingFailed"
       ELSE /\ pc' = "while"
            /\ error' = error
    /\ UNCHANGED <<tsVars, params, targetScopes, scopeIdx, shouldBreak, output,
                   listings, items>>

NextFail ==
    \/ ResolveScopes
    \/ BeginScope
    \/ EndOfScopes
    \/ ListDirectory
    \/ ListingFails
    \/ ProcessItem
    \/ EndScope

SpecFail == InitFail /\ [][NextFail]_vars

(***************************************************************************)
(* src/index.ts: the expected schema of the cache database and the         *)
(* matching of a persisted table against it (lines 83-221, 498-548).       *)
(* A column of the expected schema is a SqliteColumn; a persisted table is *)
(* known by the rows PRAGMA table_info returns for it, each with the       *)
(* column's name, declared type, notnull flag and pk (0, or the column's   *)
(* position in the primary key).                                           *)
(***************************************************************************)
\* Most deviations of a persisted table from the expected one.
MaxDeviations == 1

\* sqliteDataTypeSchema
SqliteDataTypes == {"INTEGER", "REAL", "TEXT", "BLOB"}

\* The type of a table_info row that the row schema lets through as null.
NullType == "null"

\* A declared type that sqliteDataTypeSchema does not list (SQLite keeps any
\* declared type, and a STRICT table also takes INT and ANY).
OtherType == "ANY"

\* The declared types table_info may report.
DeclaredTypes == SqliteDataTypes \cup {NullType, OtherType}

SqliteColumn(name, type, nullable, primaryKey) ==
    [name |-> name, type |-> type, nullable |-> nullable,
     primaryKey |-> primaryKey]

\* The Map's values, in insertion order.
fileSharesColumns ==
    << SqliteColumn("fileShareId", "TEXT", FALSE, TRUE),
       SqliteColumn("dataPlaneUri", "TEXT", FALSE, TRUE),
       SqliteColumn("resourceName", "TEXT", FALSE, FALSE),
       SqliteColumn("resourceType", "TEXT", FALSE, FALSE),
       SqliteColumn("resourceCreateDate", "INTEGER", FALSE, FALSE),
       SqliteColumn("fileShareName", "TEXT", FALSE, FALSE),
       SqliteColumn("isSnapshot", "INTEGER", FALSE, FALSE),
       SqliteColumn("snapshotTime", "INTEGER", FALSE, FALSE) >>

fileSystemEntriesColumns ==
    << SqliteColumn("fileShareId", "TEXT", FALSE, TRUE),
       SqliteColumn("dataPlaneUri", "TEXT", FALSE, TRUE),
       SqliteColumn("path", "TEXT", FALSE, TRUE),
       SqliteColumn("entryName", "TEXT", FALSE, FALSE) >>

\* Map.has and Map.get, on a map kept as the sequence of its values.
HasColumn(columns, name) ==
    \E i \in 1..Len(columns) : columns[i].name = name

GetColumn(columns, name) ==
    columns[CHOOSE i \in 1..Len(columns) : columns[i].name = name]

\* sqliteSchemaSchema.safeParse(...).success: every row's type is one of
\* sqliteDataTypeSchema or null (the other fields are numbers and strings
\* as SQLite returns them).
SchemaParses(rows) ==
    \A i \in 1..Len(rows) : rows[i].type \in SqliteDataTypes \cup {NullType}

\* Lines 508-513: the SqliteColumn made of a table_info row.
FoundColumn(rawColumn) ==
    SqliteColumn(rawColumn.name, rawColumn.type, ~rawColumn.notnull,
                 rawColumn.pk # 0)

\* Lines 525 and 541: expectedColumn.primaryKey !== expectedColumn.primaryKey,
\* the expected column's flag compared with itself.
PrimaryKeyDiffers(expectedColumn, foundColumn) ==
    expectedColumn.primaryKey # expectedColumn.primaryKey

\* Lines 523-526 and 539-542.
ColumnDiffers(expectedColumn, foundColumn) ==
    \/ expectedColumn.type # foundColumn.type
    \/ expectedColumn.nullable # foundColumn.nullable
    \/ PrimaryKeyDiffers(expectedColumn, foundColumn)

\* A plausible slip: every column the expected schema does not name let by.
ToleratesUnrecognized_always(foundColumn) == TRUE

\* Lines 516-521: a column the expected schema does not name is skipped when
\* it is nullable, and ends the matching with false when it is not.
ToleratesUnrecognized(foundColumn) == foundColumn.nullable

\* Lines 503-531: the loop over the table_info rows.  The result is whether
\* the loop ran to its end, and foundColumns as the loop left it.
RECURSIVE FoundColumns(_, _, _)
FoundColumns(expected, rows, foundColumns) ==
    IF rows = <<>>
    THEN [matches |-> TRUE, foundColumns |-> foundColumns]
    ELSE LET rawColumn == Head(rows)
             foundColumn == FoundColumn(rawColumn)
         IN  IF rawColumn.type = NullType
             THEN [matches |-> FALSE, foundColumns |-> foundColumns]
             ELSE IF ~HasColumn(expected, foundColumn.name)
             THEN IF ToleratesUnrecognized(foundColumn)
                  THEN FoundColumns(expected, Tail(rows), foundColumns)
                  ELSE [matches |-> FALSE, foundColumns |-> foundColumns]
             ELSE IF ColumnDiffers(GetColumn(expected, foundColumn.name),
                                   foundColumn)
             THEN [matches |-> FALSE, foundColumns |-> foundColumns]
             ELSE FoundColumns(expected, Tail(rows),
                               Append(foundColumns, foundColumn))

\* Lines 533-545: the loop over the expected columns.
RECURSIVE ExpectedAreFound(_, _)
ExpectedAreFound(expected, foundColumns) ==
    IF expected = <<>> THEN TRUE
    ELSE LET expectedColumn == Head(expected)
         IN  IF ~HasColumn(foundColumns, expectedColumn.name) THEN FALSE
             ELSE IF ColumnDiffers(expectedColumn,
                        GetColumn(foundColumns, expectedColumn.name))
             THEN FALSE
             ELSE ExpectedAreFound(Tail(expected), foundColumns)

\* DefaultCacheDb.columnsMatch
columnsMatch(expected, rows) ==
    LET first == FoundColumns(expected, rows, <<>>)
    IN  first.matches /\ ExpectedAreFound(expected, first.foundColumns)

\* Lines 311-336 and 425-449: the rows are parsed, and the table is to be
\* created when there is no row or the rows do not match.
Verdict(expected, rows) ==
    IF ~SchemaParses(rows) THEN "unparsed"
    ELSE IF Len(rows) = 0 \/ ~columnsMatch(expected, rows) THEN "dirty"
    ELSE "clean"

(***************************************************************************)
(* The persisted tables a database file may hold.                          *)
(***************************************************************************)
\* Position of the column i among the primary-key columns, 0 when it is none.
PrimaryKeyPosition(columns, i) ==
    IF columns[i].primaryKey
    THEN Cardinality({j \in 1..i : columns[j].primaryKey})
    ELSE 0

\* The table_info rows of a table that has exactly the columns given.
TableInfo(columns) ==
    [i \in 1..Len(columns) |->
        [name |-> columns[i].name,
         type |-> columns[i].type,
         notnull |-> ~columns[i].nullable,
         pk |-> PrimaryKeyPosition(columns, i)]]

\* Names of columns the expected schema does not have.
OtherColumnNames == {"note", "tag"}

\* The rows with row i left out.
WithoutRow(rows, i) ==
    SubSeq(rows, 1, i - 1) \o SubSeq(rows, i + 1, Len(rows))

\* The tables one deviation away from rows: a column dropped, a column with
\* another declared type, the other nullability or the other primary-key
\* membership, or a column under another name added at the end.
Deviations(rows) ==
    {WithoutRow(rows, i) : i \in 1..Len(rows)}
    \cup {[rows EXCEPT ![i].type = t] :
            i \in 1..Len(rows), t \in DeclaredTypes}
    \cup {[rows EXCEPT ![i].notnull = ~rows[i].notnull] : i \in 1..Len(rows)}
    \cup {[rows EXCEPT ![i].pk = IF rows[i].pk = 0 THEN Len(rows) ELSE 0] :
            i \in 1..Len(rows)}
    \cup {Append(rows, [name |-> n, type |-> t, notnull |-> b, pk |-> 0]) :
            n \in {m \in OtherColumnNames :
                      \A i \in 1..Len(rows) : rows[i].name # m},
            t \in DeclaredTypes, b \in BOOLEAN}

\* The tables at most n deviations away from the expected one; the table
\* with no row is the absent one.
RECURSIVE PersistedTables(_, _)
PersistedTables(expected, n) ==
    IF n = 0 THEN {TableInfo(expected)}
    ELSE LET nearer == PersistedTables(expected, n - 1)
         IN  nearer \cup UNION {Deviations(rows) : rows \in nearer}

(***************************************************************************)
(* The matching of one persisted table, as init does it.                   *)
(***************************************************************************)
InitMatch ==
    /\ ScriptOff
    /\ CacheOff
    /\ expectedColumns \in {fileSharesColumns, fileSystemEntriesColumns}
    /\ sqliteSchema \in PersistedTables(expectedColumns, MaxDeviations)
    /\ verdict = "none"

\* Lines 311-336 (FileShares) and 425-449 (FileSystemEntries).
MatchSchema ==
    /\ verdict = "none"
    /\ verdict' = Verdict(expectedColumns, sqliteSchema)
    /\ UNCHANGED <<scriptVars, cacheVars, expectedColumns, sqliteSchema>>

NextMatch == MatchSchema

SpecMatch == InitMatch /\ [][NextMatch]_vars

(***************************************************************************)
(* src/index.ts: the options of the search command (lines 684-693).        *)
(***************************************************************************)
\* Longest --file-share value of the model.
MaxNameLen == 4

\* Fewest and most characters between the first and the last of a share
\* name: the {1,61} of the regular expression.
MiddleMin == 1
MiddleMax == 61

\* [a-z] | [0-9], over the characters the model uses.
IsLowerOrDigit(c) == c \in {"a", "b", "t", "x", "1"}

\* /^([a-z]|[0-9])([a-z]|[0-9]|(-(?!-))){1,61}([a-z]|[0-9])$/ : each group
\* takes one character, and a "-" must not be followed by another.
MatchesShareGrammar(s) ==
    /\ Len(s) >= MiddleMin + 2
    /\ Len(s) <= MiddleMax + 2
    /\ IsLowerOrDigit(s[1])
    /\ IsLowerOrDigit(s[Len(s)])
    /\ \A i \in 2..(Len(s) - 1) :
        \/ IsLowerOrDigit(s[i])
        \/ (s[i] = "-" /\ s[i + 1] # "-")

\* targetItem: z.string()
TargetItemValid(s) == TRUE

\* searchArgsSchema.safeParse(args).success; others stands for the options
\* the model does not spell out (subscription, resourceGroup,
\* storageAccount, searchScope, matchBehavior).
ArgsValid(a) ==
    /\ a.others
    /\ MatchesShareGrammar(a.fileShare)
    /\ TargetItemValid(a.targetItem)

\* Values of --file-share: lower case, upper case and "-", in any order.
FileShareArgs ==
    UNION {[1..k -> {"a", "A", "-"}] : k \in 0..MaxNameLen}

\* Values of --target-item; commander takes an empty value as it is.
TargetItemArgs == {<<>>, <<"t">>}

SearchArgs ==
    [fileShare : FileShareArgs, targetItem : TargetItemArgs, others : BOOLEAN]

(***************************************************************************)
(* src/index.ts: the statements of init and what the database does with    *)
(* them.  A statement is the sequence of the words of its text.            *)
(***************************************************************************)
\* Rows of a table that holds any.
MaxRows == 1

parentDirectory == <<".recursiveSearch">>
dbPath == <<".recursiveSearch", "cache.db">>

journalModeQuery == <<"PRAGMA journal_mode=WAL">>
fsSchemaQuery == <<"PRAGMA table_info", "FileShares">>
dropFsTableQuery == <<"DROP TABLE IF EXISTS", "FileShares">>
entriesSchemaQuery == <<"PRAGMA table_info", "FileSystemEntries">>
dropEntriesTableQuery == <<"DROP TABLE IF EXISTS", "FileSystemEntries">>

\* A plausible slip: NOT NULL never written.
NotNullClause_never(column) == <<>>

\* Lines 569-571: if (!column.nullable) createTableQuery += " NOT NULL"
NotNullClause(column) ==
    IF ~column.nullable THEN <<"NOT NULL">> ELSE <<>>

\* Lines 557-574: the loop over the columns, from column i on.
RECURSIVE ColumnDefinitions(_, _)
ColumnDefinitions(columns, i) ==
    IF i > Len(columns) THEN <<>>
    ELSE (IF i > 1 THEN <<",">> ELSE <<>>)
            \o <<columns[i].name, columns[i].type>>
            \o NotNullClause(columns[i])
            \o ColumnDefinitions(columns, i + 1)

\* Lines 564-566: the names of the primary-key columns, in order.
RECURSIVE PrimaryKeys(_)
PrimaryKeys(columns) ==
    IF columns = <<>> THEN <<>>
    ELSE (IF Head(columns).primaryKey THEN <<Head(columns).name>> ELSE <<>>)
            \o PrimaryKeys(Tail(columns))

\* Lines 580-586: the loop over primaryKeys, from key j on.
RECURSIVE KeyList(_, _)
KeyList(primaryKeys, j) ==
    IF j > Len(primaryKeys) THEN <<>>
    ELSE (IF j > 1 THEN <<",">> ELSE <<>>)
            \o <<primaryKeys[j]>>
            \o KeyList(primaryKeys, j + 1)

\* DefaultCacheDb.buildCreateTableQuery
buildCreateTableQuery(tableName, columns) ==
    LET primaryKeys == PrimaryKeys(columns)
    IN  <<"CREATE TABLE", tableName, "(">>
            \o ColumnDefinitions(columns, 1)
            \o (IF Len(primaryKeys) > 0
                THEN <<",", "PRIMARY KEY", "(">> ELSE <<>>)
            \o KeyList(primaryKeys, 1)
            \o (IF Len(primaryKeys) > 0 THEN <<")">> ELSE <<>>)
            \o <<")", "STRICT">>

createFsTableQuery ==
    buildCreateTableQuery("FileShares", fileSharesColumns)

createEntriesTableQuery ==
    buildCreateTableQuery("FileSystemEntries", fileSystemEntriesColumns)

\* The database's reading of the column definitions of a CREATE TABLE:
\* name, type and an optional NOT NULL, separated by ",", up to the table
\* constraint or the closing ")".
RECURSIVE DefinedColumns(_)
DefinedColumns(words) ==
    IF Len(words) < 2 \/ words[1] \in {")", "PRIMARY KEY"} THEN <<>>
    ELSE LET notnull == Len(words) >= 3 /\ words[3] = "NOT NULL"
             used == IF notnull THEN 3 ELSE 2
             rest == SubSeq(words, used + 1, Len(words))
         IN  <<[name |-> words[1], type |-> words[2], notnull |-> notnull]>>
                \o (IF rest # <<>> /\ rest[1] = ","
                    THEN DefinedColumns(Tail(rest)) ELSE <<>>)

\* The database's reading of PRIMARY KEY ( ... ): the names up to ")".
RECURSIVE DefinedKeys(_)
DefinedKeys(words) ==
    IF words = <<>> \/ words[1] = ")" THEN <<>>
    ELSE IF words[1] = "," THEN DefinedKeys(Tail(words))
    ELSE <<words[1]>> \o DefinedKeys(Tail(words))

\* The words after PRIMARY KEY (, none when there is no such constraint.
AfterPrimaryKey(words) ==
    LET at == {i \in 1..Len(words) : words[i] = "PRIMARY KEY"}
    IN  IF at = {} THEN <<>>
        ELSE SubSeq(words, (CHOOSE i \in at : TRUE) + 2, Len(words))

\* Position of name in keys, 0 when it is not there.
KeyPosition(keys, name) ==
    IF \E k \in 1..Len(keys) : keys[k] = name
    THEN CHOOSE k \in 1..Len(keys) : keys[k] = name
    ELSE 0

\* The table_info rows of the table a CREATE TABLE statement makes.
CreatedTable(query) ==
    LET columns == DefinedColumns(SubSeq(query, 4, Len(query)))
        keys == DefinedKeys(AfterPrimaryKey(query))
    IN  [i \in 1..Len(columns) |->
            [name |-> columns[i].name,
             type |-> columns[i].type,
             notnull |-> columns[i].notnull,
             pk |-> KeyPosition(keys, columns[i].name)]]

\* A table of the database file: its table_info rows (none when the table
\* is absent) and the number of its rows.
Table(columns, rows) == [columns |-> columns, rows |-> rows]

AbsentTable == Table(<<>>, 0)

\* The tables a database file may hold for an expected schema: none, the
\* table as an earlier init created it, the expected one, or one a
\* deviation away from it; empty or with rows.
StoredTables(tableName, expected) ==
    {AbsentTable}
    \cup {Table(columns, rows) :
            columns \in {CreatedTable(buildCreateTableQuery(tableName, expected)),
                         TableInfo(expected)}
                            \cup Deviations(TableInfo(expected)),
            rows \in {0, MaxRows}}

\* The cache directory and the database file in it.
Stores ==
    {[directory |-> FALSE, FileShares |-> AbsentTable,
      FileSystemEntries |-> AbsentTable]}
    \cup [directory : {TRUE},
          FileShares : StoredTables("FileShares", fileSharesColumns),
          FileSystemEntries :
            StoredTables("FileSystemEntries", fileSystemEntriesColumns)]

\* What init returns.
InitSuccess == [success |-> TRUE, failureType |-> "none", text |-> <<>>]

InitFailure(failureType, text) ==
    [success |-> FALSE, failureType |-> failureType, text |-> text]

\* An error thrown out of init, not returned.
InitThrown == InitFailure("thrown", <<>>)

\* The statement query was run and did or did not succeed; rows is what a
\* table_info returned.
Ran(query, ok, rows) == [query |-> query, ok |-> ok, rows |-> rows]

(***************************************************************************)
(* The search command (lines 728-743) and init (lines 243-496).            *)
(***************************************************************************)
\* The command is run with valid options, on any store.
InitCache ==
    /\ ScriptOff
    /\ MatchOff
    /\ args = [fileShare |-> <<"a", "-", "a">>, targetItem |-> <<"t">>,
               others |-> TRUE]
    /\ cpc = "parse"
    /\ store \in Stores
    /\ connection = "null"
    /\ mkdirPromise = "none"
    /\ initResult = InitFailure("none", <<>>)
    /\ executed = <<>>

\* The command is run with any options, on no store or a clean one.
InitSearch ==
    /\ ScriptOff
    /\ MatchOff
    /\ args \in SearchArgs
    /\ cpc = "parse"
    /\ store \in
        {[directory |-> FALSE, FileShares |-> AbsentTable,
          FileSystemEntries |-> AbsentTable],
         [directory |-> TRUE,
          FileShares |-> Table(TableInfo(fileSharesColumns), 0),
          FileSystemEntries |-> Table(TableInfo(fileSystemEntriesColumns), 0)]}
    /\ connection = "null"
    /\ mkdirPromise = "none"
    /\ initResult = InitFailure("none", <<>>)
    /\ executed = <<>>

\* Lines 728-735: the options are parsed; on failure the process exits with
\* code 1, else a DefaultCacheDb is made and init called.
ParseArgs ==
    /\ cpc = "parse"
    /\ cpc' = IF ArgsValid(args) THEN "init" ELSE "exited"
    /\ UNCHANGED <<scriptVars, matchVars, args, store, connection,
                   mkdirPromise, initResult, executed>>

\* Lines 245-266: FileSystem.mkdir (fs/promises) is called and the promise
\* it returns is left alone: it is not awaited, so the catch of line 249
\* sees no rejection and init goes on whatever becomes of the directory.
MakeDirectory ==
    /\ cpc = "init"
    /\ connection = "null"
    /\ mkdirPromise' = "pending"
    /\ cpc' = "open"
    /\ UNCHANGED <<scriptVars, matchVars, args, store, connection,
                   initResult, executed>>

\* The mkdir started on line 247 completes, at any time: it finds the
\* directory there, makes it, or fails and rejects the promise.
SettleMkdir ==
    /\ mkdirPromise = "pending"
    /\ cpc \notin {"exited", "done", "crashed"}
    /\ \E ok \in BOOLEAN :
        /\ ok \/ ~store.directory
        /\ mkdirPromise' = IF ok THEN "fulfilled" ELSE "rejected"
        /\ store' = IF ok THEN [store EXCEPT !.directory = TRUE] ELSE store
    /\ UNCHANGED <<scriptVars, matchVars, args, cpc, connection, initResult,
                   executed>>

\* Lines 268-284: new Database(dbPath, { create: true }).  It fails when the
\* directory is not there, and may fail when it is.
OpenDatabase ==
    /\ cpc = "open"
    /\ \E ok \in BOOLEAN :
        /\ ok => store.directory
        /\ IF ok
           THEN /\ connection' = "open"
                /\ cpc' = "journal"
                /\ initResult' = initResult
           ELSE /\ connection' = connection
                /\ cpc' = "returned"
                /\ initResult' = InitFailure("CacheDbConnectionFailure", dbPath)
    /\ UNCHANGED <<scriptVars, matchVars, args, store, mkdirPromise, executed>>

\* Line 287: this.connection.run("PRAGMA journal_mode=WAL"), in no try
\* block: an error of the statement is thrown out of init.
SetJournalMode ==
    /\ cpc = "journal"
    /\ \E ok \in BOOLEAN :
        /\ executed' = Append(executed, Ran(journalModeQuery, ok, <<>>))
        /\ IF ok
           THEN /\ cpc' = "fsInfo"
                /\ initResult' = initResult
           ELSE /\ cpc' = "returned"
                /\ initResult' = InitThrown
    /\ UNCHANGED <<scriptVars, matchVars, args, store, connection,
                   mkdirPromise>>

\* Lines 289-336: the FileShares table is introspected, the rows parsed and
\* matched.
IntrospectFileShares ==
    /\ cpc = "fsInfo"
    /\ \E ok \in BOOLEAN :
        LET rows == IF ok THEN store.FileShares.columns ELSE <<>>
            found == Verdict(fileSharesColumns, rows)
        IN  /\ executed' = Append(executed, Ran(fsSchemaQuery, ok, rows))
            /\ IF ~ok
               THEN /\ cpc' = "returned"
                    /\ initResult' =
                        InitFailure("CacheDbQueryFailure", fsSchemaQuery)
               ELSE IF found = "unparsed"
               THEN /\ cpc' = "returned"
                    /\ initResult' =
                        InitFailure("CacheDbResultSchemaFailure", dbPath)
               ELSE /\ cpc' = IF found = "dirty" THEN "fsDropFs" ELSE "entInfo"
                    /\ initResult' = initResult
    /\ UNCHANGED <<scriptVars, matchVars, args, store, connection,
                   mkdirPromise>>

\* Lines 338-356: DROP TABLE IF EXISTS FileShares.
DropFileShares ==
    /\ cpc = "fsDropFs"
    /\ \E ok \in BOOLEAN :
        /\ executed' = Append(executed, Ran(dropFsTableQuery, ok, <<>>))
        /\ IF ok
           THEN /\ store' = [store EXCEPT !.FileShares = AbsentTable]
                /\ cpc' = "fsDropEntries"
                /\ initResult' = initResult
           ELSE /\ store' = store
                /\ cpc' = "returned"
                /\ initResult' =
                    InitFailure("CacheDbQueryFailure", dropFsTableQuery)
    /\ UNCHANGED <<scriptVars, matchVars, args, connection, mkdirPromise>>

\* Lines 358-376: DROP TABLE IF EXISTS FileSystemEntries; the failure
\* returned on line 371 carries dropFsTableQuery.
DropEntriesWithFileShares ==
    /\ cpc = "fsDropEntries"
    /\ \E ok \in BOOLEAN :
        /\ executed' = Append(executed, Ran(dropEntriesTableQuery, ok, <<>>))
        /\ IF ok
           THEN /\ store' = [store EXCEPT !.FileSystemEntries = AbsentTable]
                /\ cpc' = "fsCreate"
                /\ initResult' = initResult
           ELSE /\ store' = store
                /\ cpc' = "returned"
                /\ initResult' =
                    InitFailure("CacheDbQueryFailure", dropFsTableQuery)
    /\ UNCHANGED <<scriptVars, matchVars, args, connection, mkdirPromise>>

\* Lines 378-398: CREATE TABLE "FileShares" ...
CreateFileShares ==
    /\ cpc = "fsCreate"
    /\ \E ok \in BOOLEAN :
        /\ ok => store.FileShares = AbsentTable
        /\ executed' = Append(executed, Ran(createFsTableQuery, ok, <<>>))
        /\ IF ok
           THEN /\ store' = [store EXCEPT !.FileShares =
                                Table(CreatedTable(createFsTableQuery), 0)]
                /\ cpc' = "entInfo"
                /\ initResult' = initResult
           ELSE /\ store' = store
                /\ cpc' = "returned"
                /\ initResult' =
                    InitFailure("CacheDbQueryFailure", createFsTableQuery)
    /\ UNCHANGED <<scriptVars, matchVars, args, connection, mkdirPromise>>

\* Lines 401-449: the FileSystemEntries table is introspected, the rows
\* parsed and matched; line 495 returns success when the table is clean.
IntrospectEntries ==
    /\ cpc = "entInfo"
    /\ \E ok \in BOOLEAN :
        LET rows == IF ok THEN store.FileSystemEntries.columns ELSE <<>>
            found == Verdict(fileSystemEntriesColumns, rows)
        IN  /\ executed' = Append(executed, Ran(entriesSchemaQuery, ok, rows))
            /\ IF ~ok
               THEN /\ cpc' = "returned"
                    /\ initResult' =
                        InitFailure("CacheDbQueryFailure", entriesSchemaQuery)
               ELSE IF found = "unparsed"
               THEN /\ cpc' = "returned"
                    /\ initResult' =
                        InitFailure("CacheDbResultSchemaFailure", dbPath)
               ELSE IF found = "dirty"
               THEN /\ cpc' = "entDrop"
                    /\ initResult' = initResult
               ELSE /\ cpc' = "returned"
                    /\ initResult' = InitSuccess
    /\ UNCHANGED <<scriptVars, matchVars, args, store, connection,
                   mkdirPromise>>

\* Lines 451-471: DROP TABLE IF EXISTS FileSystemEntries.
DropEntries ==
    /\ cpc = "entDrop"
    /\ \E ok \in BOOLEAN :
        /\ executed' = Append(executed, Ran(dropEntriesTableQuery, ok, <<>>))
        /\ IF ok
           THEN /\ store' = [store EXCEPT !.FileSystemEntries = AbsentTable]
                /\ cpc' = "entCreate"
                /\ initResult' = initResult
           ELSE /\ store' = store
                /\ cpc' = "returned"
                /\ initResult' =
                    InitFailure("CacheDbQueryFailure", dropEntriesTableQuery)
    /\ UNCHANGED <<scriptVars, matchVars, args, connection, mkdirPromise>>

\* Lines 473-495: CREATE TABLE "FileSystemEntries" ..., and success.
CreateEntries ==
    /\ cpc = "entCreate"
    /\ \E ok \in BOOLEAN :
        /\ ok => store.FileSystemEntries = AbsentTable
        /\ executed' = Append(executed, Ran(createEntriesTableQuery, ok, <<>>))
        /\ cpc' = "returned"
        /\ IF ok
           THEN /\ store' = [store EXCEPT !.FileSystemEntries =
                                Table(CreatedTable(createEntriesTableQuery), 0)]
                /\ initResult' = InitSuccess
           ELSE /\ store' = store
                /\ initResult' =
                    InitFailure("CacheDbQueryFailure", createEntriesTableQuery)
    /\ UNCHANGED <<scriptVars, matchVars, args, connection, mkdirPromise>>

\* Lines 735-743 and 594-596: after init.  A failure returned ends the
\* process with process.exit(1), inside the scope of the await using; on
\* success, and when init threw, the scope is left and the connection closed.
EndSearch ==
    /\ cpc = "returned"
    /\ IF initResult.success
       THEN /\ cpc' = "done"
            /\ connection' = "closed"
       ELSE IF initResult = InitThrown
       THEN /\ cpc' = "crashed"
            /\ connection' = "closed"
       ELSE /\ cpc' = "exited"
            /\ connection' = connection
    /\ UNCHANGED <<scriptVars, matchVars, args, store, mkdirPromise,
                   initResult, executed>>

NextCache ==
    \/ ParseArgs
    \/ MakeDirectory
    \/ SettleMkdir
    \/ OpenDatabase
    \/ SetJournalMode
    \/ IntrospectFileShares
    \/ DropFileShares
    \/ DropEntriesWithFileShares
    \/ CreateFileShares
    \/ IntrospectEntries
    \/ DropEntries
    \/ CreateEntries
    \/ EndSearch

SpecCache == InitCache /\ [][NextCache]_vars

SpecSearch == InitSearch /\ [][NextCache]_vars

(***************************************************************************)
(* Vocabulary of the properties.  The directory tree of a scope is what    *)
(* the remote returns for it: the replies recorded in listings.  What a    *)
(* directory never listed holds plays no part in a run.                    *)
(***************************************************************************)
\* Position in $targetScopes of the scope with snapshot time t.
ScopeOfTime(t) ==
    CHOOSE i \in 1..Len(targetScopes) : targetScopes[i].SnapshotTime = t

\* The scope a written match object belongs to.
ScopeOfMatch(obj) == ScopeOfTime(obj.SnapshotTime)

\* Two names are the same name when they agree ignoring letter case.
SameName(a, b) ==
    /\ Len(a) = Len(b)
    /\ \A i \in 1..Len(a) : ToLowerChar(a[i]) = ToLowerChar(b[i])

\* The occurrences of the target in the listings of scope k, each as
\* <<scope, path>>; a path is the listed directory's path and the entry's name.
OccurrencesIn(k) ==
    UNION {{<<k, listings[n].dirPath \o listings[n].items[j].Name>> :
                j \in {i \in 1..Len(listings[n].items) :
                        SameName(listings[n].items[i].Name, TargetItemName)}} :
            n \in {m \in 1..Len(listings) : listings[m].scope = k}}

\* Every scope k's root and every directory a listing of scope k returned has
\* been listed, each exactly once.
WhollyListed(k) ==
    /\ Cardinality({n \in 1..Len(listings) :
            listings[n].scope = k /\ listings[n].dirPath = <<"/">>}) = 1
    /\ \A n \in 1..Len(listings) :
         listings[n].scope = k =>
           \A j \in 1..Len(listings[n].items) :
             listings[n].items[j].IsDirectory =>
               Cardinality({m \in 1..Len(listings) :
                    /\ listings[m].scope = k
                    /\ listings[m].dirPath =
                          listings[n].dirPath \o listings[n].items[j].Name
                              \o <<"/">>}) = 1

\* The written match objects are, one for one, the occurrences in O.
EmitsExactly(O) ==
    /\ Len(output) = Cardinality(O)
    /\ {<<ScopeOfMatch(output[n]), output[n].Path>> : n \in 1..Len(output)} = O

(***************************************************************************)
(* C1.  Under Continue a finished run has listed every directory of every  *)
(* resolved scope and has written exactly one match object per entry named *)
(* as the target, over all scopes: none missed, none written twice, and    *)
(* the same path in two scopes written twice.  A name equals the target in *)
(* the sense of the file service, which ignores letter case (see C10).     *)
(***************************************************************************)
C1_ContinueEmitsEveryOccurrence ==
    (pc = "done" /\ MatchBehavior = "Continue") =>
        /\ \A k \in 1..Len(targetScopes) : WhollyListed(k)
        /\ EmitsExactly(UNION {OccurrencesIn(k) : k \in 1..Len(targetScopes)})

\* A finished Continue run that found the same path in two scopes.
C1_Witness ==
    /\ pc = "done"
    /\ MatchBehavior = "Continue"
    /\ \E m, n \in 1..Len(output) :
        /\ output[m].Path = output[n].Path
        /\ output[m].SnapshotTime # output[n].SnapshotTime

(***************************************************************************)
(* C2.  Under End, once a match object is written, the queue is empty and  *)
(* stays so, the script is past the listing loop, and no step lists a      *)
(* directory, processes a child or writes a match any more.                *)
(***************************************************************************)
EndMatched == MatchBehavior = "End" /\ output # <<>>

C2_EndStopsTheRun ==
    /\ [](EndMatched => /\ queue = <<>>
                        /\ shouldBreak
                        /\ pc \in {"while", "done"})
    /\ [][EndMatched => /\ listings' = listings
                        /\ items' = items
                        /\ output' = output
                        /\ queue' = <<>>]_vars

\* An End run that stopped at a match with a sibling left unprocessed and a
\* later scope never visited.
C2_Witness ==
    /\ pc = "done"
    /\ MatchBehavior = "End"
    /\ Len(output) = 1
    /\ dirEnum # <<>>
    /\ scopeIdx < Len(targetScopes)

(***************************************************************************)
(* C3.  Under ScopeEnd no directory of a scope after the one that gave a   *)
(* match is listed, all match objects belong to that one scope, and a      *)
(* finished run has listed that scope wholly and written every occurrence  *)
(* in it.                                                                  *)
(***************************************************************************)
C3_ScopeEndFinishesTheScope ==
    MatchBehavior = "ScopeEnd" =>
        /\ \A m \in 1..Len(output) : \A n \in 1..Len(listings) :
              listings[n].scope <= ScopeOfMatch(output[m])
        /\ \A m, n \in 1..Len(output) :
              output[m].SnapshotTime = output[n].SnapshotTime
        /\ (pc = "done" /\ output # <<>>) =>
              /\ WhollyListed(ScopeOfMatch(output[1]))
              /\ EmitsExactly(OccurrencesIn(ScopeOfMatch(output[1])))

\* A finished ScopeEnd run over two or more scopes whose first scope gave a
\* match and then, deeper in the same scope, another one.
C3_Witness ==
    /\ pc = "done"
    /\ MatchBehavior = "ScopeEnd"
    /\ Len(targetScopes) >= 2
    /\ Len(output) >= 2
    /\ ScopeOfMatch(output[1]) = 1
    /\ Len(output[2].Path) > Len(output[1].Path)

(***************************************************************************)
(* Vocabulary of the properties of scope resolution.  The shares are       *)
(* described from the account's listing, not from the script's variables.  *)
(***************************************************************************)
\* The account has the requested share: live, not deleted, named exactly so.
HasLiveShare ==
    \E i \in 1..Len(shares) :
        /\ shares[i].Name = FileShareName
        /\ ~shares[i].IsSnapshot
        /\ ~shares[i].IsDeleted

\* The snapshots of the requested share that are not deleted.
SnapshotsOfShare ==
    {shares[i] : i \in {j \in 1..Len(shares) :
                          /\ shares[j].Name = FileShareName
                          /\ shares[j].IsSnapshot
                          /\ ~shares[j].IsDeleted}}

\* Resolution succeeded (the script is at or past the loop over the scopes).
Resolved == pc \notin {"start", "failed"}

\* Resolution failed with the error e and left nothing behind.
FailedWith(e) ==
    /\ pc = "failed"
    /\ error = e
    /\ targetScopes = <<>>
    /\ listings = <<>>
    /\ items = <<>>
    /\ output = <<>>

(***************************************************************************)
(* C4.  In every scope list resolved with Both, the live scope comes       *)
(* before every snapshot scope and the snapshot scopes are in strictly     *)
(* descending order of SnapshotTime.                                       *)
(***************************************************************************)
C4_LiveFirstThenNewestSnapshot ==
    (Resolved /\ SearchScope = "Both") =>
        \A i, j \in 1..Len(targetScopes) :
            /\ (~targetScopes[i].IsSnapshot /\ targetScopes[j].IsSnapshot)
                    => i < j
            /\ (targetScopes[i].IsSnapshot /\ targetScopes[j].IsSnapshot /\ i < j)
                    => targetScopes[i].SnapshotTime > targetScopes[j].SnapshotTime

\* A list resolved with Both: the live share, then two snapshots that the
\* account listed oldest first and before the live share.
C4_Witness ==
    /\ Resolved
    /\ SearchScope = "Both"
    /\ Len(targetScopes) = 3
    /\ \E i, j, k \in 1..Len(shares) :
        /\ i < j /\ j < k
        /\ shares[i] = targetScopes[3]
        /\ shares[j] = targetScopes[2]
        /\ shares[k] = targetScopes[1]

(***************************************************************************)
(* C5.  Whenever the account has no live, not deleted share named exactly  *)
(* as requested, the script stops with the share-not-found error, whatever *)
(* the search scope: no scope list is built and no directory is listed.    *)
(***************************************************************************)
C5_NoLiveShareIsNotFound ==
    (pc # "start" /\ ~HasLiveShare) => FailedWith("ShareNotFound")

\* Share not found with FileShareSnapshots although a snapshot of the share
\* is there.
C5_Witness ==
    /\ FailedWith("ShareNotFound")
    /\ SearchScope = "FileShareSnapshots"
    /\ FileShareName = <<"a">>
    /\ SnapshotsOfShare # {}

(***************************************************************************)
(* C6.  With FileShareSnapshots and a share that has no snapshot, the      *)
(* script stops with the no-snapshots error: no scope is traversed and no  *)
(* match is written.                                                       *)
(***************************************************************************)
C6_NoSnapshotIsAnError ==
    (/\ pc # "start"
     /\ SearchScope = "FileShareSnapshots"
     /\ HasLiveShare
     /\ SnapshotsOfShare = {}) => FailedWith("NoSnapshots")

\* The no-snapshots error, raised for a share that exists.
C6_Witness ==
    /\ FailedWith("NoSnapshots")
    /\ HasLiveShare

(***************************************************************************)
(* C7.  Every resolved scope is named exactly as requested (not merely     *)
(* with the requested name as a prefix) and is not marked deleted.         *)
(***************************************************************************)
C7_ScopesHaveTheExactName ==
    \A i \in 1..Len(targetScopes) :
        /\ targetScopes[i].Name = FileShareName
        /\ ~targetScopes[i].IsDeleted

\* Scopes resolved in an account that also lists a share with a longer name,
\* not deleted, and a deleted snapshot of the requested share.
C7_Witness ==
    /\ Resolved
    /\ targetScopes # <<>>
    /\ \E i, j \in 1..Len(shares) :
        /\ shares[i].Name # FileShareName
        /\ ~shares[i].IsDeleted
        /\ shares[j].Name = FileShareName
        /\ shares[j].IsSnapshot /\ shares[j].IsDeleted

(***************************************************************************)
(* C8.  A resolved list holds the live scope iff the search scope is       *)
(* FileShare or Both, and holds the snapshots of the share (all of them,   *)
(* and none when one is there) iff it is FileShareSnapshots or Both; it    *)
(* holds nothing else and nothing twice.  With Both and no snapshot        *)
(* resolution succeeds and the list is the live scope alone.               *)
(***************************************************************************)
C8_ListFollowsTheSearchScope ==
    /\ Resolved =>
        /\ (\E i \in 1..Len(targetScopes) : ~targetScopes[i].IsSnapshot)
                <=> SearchScope \in {"FileShare", "Both"}
        /\ \A sh \in SnapshotsOfShare :
             (\E i \in 1..Len(targetScopes) : targetScopes[i] = sh)
                <=> SearchScope \in {"FileShareSnapshots", "Both"}
        /\ \A i \in 1..Len(targetScopes) :
             /\ \E j \in 1..Len(shares) : shares[j] = targetScopes[i]
             /\ \/ targetScopes[i] = LiveShare(FileShareName, FALSE)
                \/ targetScopes[i] \in SnapshotsOfShare
        /\ \A i, j \in 1..Len(targetScopes) :
             targetScopes[i] = targetScopes[j] => i = j
    /\ (/\ pc # "start"
        /\ SearchScope = "Both"
        /\ HasLiveShare
        /\ SnapshotsOfShare = {})
            => (Resolved /\ targetScopes = <<LiveShare(FileShareName, FALSE)>>)

\* Both resolved to the live scope alone, in an account that lists other
\* shares too.
C8_Witness ==
    /\ Resolved
    /\ SearchScope = "Both"
    /\ SnapshotsOfShare = {}
    /\ Len(targetScopes) = 1
    /\ Len(shares) = MaxShares

(***************************************************************************)
(* C9.  Every path the traversal builds starts with "/" and holds no "//". *)
(* A child's path is the path of the directory listed, which ends in "/",  *)
(* followed by the child's name; the directory listed is the root "/" or   *)
(* the path of a directory child followed by "/".  So a child foo of the   *)
(* root has path "/foo", and any entry's path is "/" and the names of its  *)
(* ancestors and itself joined by single "/".                              *)
(***************************************************************************)
\* p starts with "/" and has no two "/" in a row.
RootedPath(p) ==
    /\ p # <<>>
    /\ p[1] = "/"
    /\ \A i \in 1..(Len(p) - 1) : ~(p[i] = "/" /\ p[i + 1] = "/")

\* The names between the separators of a path that ends in a name.
RECURSIVE PathNames(_)
PathNames(p) ==
    IF p = <<>> THEN <<>>
    ELSE LET rest == Tail(p)
             ends == {i \in 1..Len(rest) : rest[i] = "/"}
             stop == IF ends = {} THEN Len(rest) + 1
                     ELSE CHOOSE i \in ends : \A j \in ends : i <= j
         IN  <<SubSeq(rest, 1, stop - 1)>>
                \o PathNames(SubSeq(rest, stop, Len(rest)))

C9_PathsAreRooted ==
    /\ \A n \in 1..Len(queue) : RootedPath(queue[n])
    /\ \A n \in 1..Len(output) : RootedPath(output[n].Path)
    /\ \A n \in 1..Len(listings) :
        /\ RootedPath(listings[n].dirPath)
        /\ \/ listings[n].dirPath = <<"/">>
           \/ \E m \in 1..Len(items) :
                /\ items[m].scope = listings[n].scope
                /\ items[m].IsDirectory
                /\ listings[n].dirPath = items[m].path \o <<"/">>
    /\ \A n \in 1..Len(items) :
        /\ RootedPath(items[n].path)
        /\ items[n].path[Len(items[n].path)] # "/"
        /\ items[n].path = items[n].dirPath \o items[n].Name
        /\ items[n].dirPath = <<"/">> => items[n].path = <<"/">> \o items[n].Name
        /\ \E m \in 1..Len(listings) :
                /\ listings[m].scope = items[n].scope
                /\ listings[m].dirPath = items[n].dirPath
        /\ LET names == PathNames(items[n].path)
           IN  /\ names # <<>>
               /\ names[Len(names)] = items[n].Name
               /\ \A k \in 1..Len(names) : names[k] \in EntryNames

\* A match written for an entry two directories below the root.
C9_Witness ==
    \E n \in 1..Len(output) :
        Len(PathNames(output[n].Path)) = 3

(***************************************************************************)
(* C10.  As claimed: a processed child gets a match object iff its name is *)
(* the target name character for character.                                *)
(***************************************************************************)
\* A match object was written for the processed child it.
Emitted(it) ==
    \E n \in 1..Len(output) :
        /\ output[n].Path = it.path
        /\ output[n].SnapshotTime = targetScopes[it.scope].SnapshotTime

C10_MatchIffIdenticalName ==
    \A n \in 1..Len(items) :
        Emitted(items[n]) <=> items[n].Name = TargetItemName

(***************************************************************************)
(* C10, amended.  A processed child, file or directory, gets a match       *)
(* object iff its name is the target name up to letter case; a child with  *)
(* a name that differs otherwise never gets one.                           *)
(***************************************************************************)
C10_MatchIffSameNameIgnoringCase ==
    \A n \in 1..Len(items) :
        Emitted(items[n]) <=> SameName(items[n].Name, TargetItemName)

\* A file named as the target in another case and a directory whose name
\* starts with the target, both processed: a match for the first alone.
C10_Witness ==
    \E m, n \in 1..Len(items) :
        /\ items[m].Name # TargetItemName
        /\ SameName(items[m].Name, TargetItemName)
        /\ ~items[m].IsDirectory
        /\ Emitted(items[m])
        /\ items[n].IsDirectory
        /\ ~SameName(items[n].Name, TargetItemName)
        /\ ~Emitted(items[n])

(***************************************************************************)
(* C11.  A processed child that is a directory is enqueued whether or not  *)
(* it matched: under ScopeEnd and Continue (and under End while nothing    *)
(* has matched) its path followed by "/" is in the queue or has been       *)
(* listed.  In a finished ScopeEnd or Continue run every processed         *)
(* directory, a matched one too, has been listed, every entry of its       *)
(* listing has been processed, and those named as the target have their    *)
(* match objects written.                                                  *)
(***************************************************************************)
\* The directory child it is waiting in the queue of the current scope.
Queued(it) ==
    /\ it.scope = scopeIdx
    /\ \E n \in 1..Len(queue) : queue[n] = it.path \o <<"/">>

\* The listings of the directory child it.
ListingsOf(it) ==
    {n \in 1..Len(listings) :
        /\ listings[n].scope = it.scope
        /\ listings[n].dirPath = it.path \o <<"/">>}

\* The entry e of the listing n has been processed, and written if it is
\* named as the target.
ProcessedFrom(n, e) ==
    \E m \in 1..Len(items) :
        /\ items[m].scope = listings[n].scope
        /\ items[m].dirPath = listings[n].dirPath
        /\ items[m].Name = e.Name
        /\ SameName(e.Name, TargetItemName) => Emitted(items[m])

C11_DirectoriesAreEnqueuedMatchedOrNot ==
    /\ (MatchBehavior \in {"ScopeEnd", "Continue"} \/ output = <<>>) =>
        \A n \in 1..Len(items) :
            items[n].IsDirectory =>
                (Queued(items[n]) \/ ListingsOf(items[n]) # {})
    /\ (pc = "done" /\ MatchBehavior \in {"ScopeEnd", "Continue"}) =>
        \A n \in 1..Len(items) :
            items[n].IsDirectory =>
                /\ ListingsOf(items[n]) # {}
                /\ \A k \in ListingsOf(items[n]) :
                     \A j \in 1..Len(listings[k].items) :
                        ProcessedFrom(k, listings[k].items[j])

\* A finished ScopeEnd run that matched a directory and then, in the listing
\* of that directory, an entry named as the target.
C11_Witness ==
    /\ pc = "done"
    /\ MatchBehavior = "ScopeEnd"
    /\ \E n \in 1..Len(items) :
        /\ items[n].IsDirectory
        /\ SameName(items[n].Name, TargetItemName)
        /\ Emitted(items[n])
        /\ \E m \in 1..Len(items) :
            /\ items[m].scope = items[n].scope
            /\ items[m].dirPath = items[n].path \o <<"/">>
            /\ SameName(items[m].Name, TargetItemName)
            /\ Emitted(items[m])

(***************************************************************************)
(* Vocabulary of the properties of the schema matching.                    *)
(***************************************************************************)
\* The persisted column row is the expected column in declared type,
\* nullability and primary-key membership.
SameColumn(expectedColumn, row) ==
    /\ row.type = expectedColumn.type
    /\ row.notnull = ~expectedColumn.nullable
    /\ (row.pk # 0) = expectedColumn.primaryKey

\* The persisted column row is one the expected schema does not name.
Unrecognized(row) ==
    \A i \in 1..Len(expectedColumns) : expectedColumns[i].name # row.name

UnrecognizedRows ==
    {i \in 1..Len(sqliteSchema) : Unrecognized(sqliteSchema[i])}

\* The persisted table has every expected column, each as expected; it may
\* have others.
HasExpectedColumns ==
    \A i \in 1..Len(expectedColumns) :
        \E j \in 1..Len(sqliteSchema) :
            /\ sqliteSchema[j].name = expectedColumns[i].name
            /\ SameColumn(expectedColumns[i], sqliteSchema[j])

Matched == verdict # "none"

(***************************************************************************)
(* C12.  A persisted table is found clean only if every expected column    *)
(* is in it with the expected declared type, nullability and primary-key   *)
(* membership; a persisted column named as an expected one that differs    *)
(* from it in any of the three keeps the table from being found clean.     *)
(***************************************************************************)
C12_CleanOnlyIfEveryColumnIdentical ==
    /\ verdict = "clean" => HasExpectedColumns
    /\ Matched =>
        \A i \in 1..Len(expectedColumns) : \A j \in 1..Len(sqliteSchema) :
            (/\ sqliteSchema[j].name = expectedColumns[i].name
             /\ ~SameColumn(expectedColumns[i], sqliteSchema[j]))
                => verdict # "clean"

(***************************************************************************)
(* C13.  As claimed: a persisted column the expected schema does not name  *)
(* is tolerated exactly when it is nullable.  One that is NOT NULL makes   *)
(* the table dirty; nullable ones alone, added to the expected columns,    *)
(* leave it clean.                                                         *)
(***************************************************************************)
\* The persisted table is the expected one with unrecognized columns added.
OnlyAddsColumns ==
    SelectSeq(sqliteSchema, LAMBDA row : ~Unrecognized(row))
        = TableInfo(expectedColumns)

C13_UnrecognizedToleratedIffNullable ==
    Matched =>
        /\ (\E i \in UnrecognizedRows : sqliteSchema[i].notnull)
                => verdict = "dirty"
        /\ (/\ OnlyAddsColumns
            /\ \A i \in UnrecognizedRows : ~sqliteSchema[i].notnull)
                => verdict = "clean"

(***************************************************************************)
(* C13, amended.  The declared type comes first: a table with a column of  *)
(* a declared type outside INTEGER, REAL, TEXT and BLOB is not matched at  *)
(* all (its rows fail to parse), and otherwise a table with a column of    *)
(* null type is dirty, whatever the column's name and nullability.  Among  *)
(* tables whose columns all have one of the four types, an unrecognized    *)
(* NOT NULL column makes the table dirty, and unrecognized nullable        *)
(* columns alone, added to the expected columns, leave it clean.           *)
(***************************************************************************)
C13_UnrecognizedToleratedIffNullableAndTyped ==
    Matched =>
        /\ (\E i \in 1..Len(sqliteSchema) : sqliteSchema[i].type = OtherType)
                <=> verdict = "unparsed"
        /\ (/\ verdict # "unparsed"
            /\ \E i \in 1..Len(sqliteSchema) : sqliteSchema[i].type = NullType)
                => verdict = "dirty"
        /\ (/\ verdict # "unparsed"
            /\ \E i \in UnrecognizedRows : sqliteSchema[i].notnull)
                => verdict = "dirty"
        /\ (/\ OnlyAddsColumns
            /\ \A i \in UnrecognizedRows :
                    /\ ~sqliteSchema[i].notnull
                    /\ sqliteSchema[i].type \in SqliteDataTypes)
                => verdict = "clean"

\* A table found clean that has, after the expected columns, a nullable
\* column the expected schema does not name.
C13_Witness ==
    /\ verdict = "clean"
    /\ UnrecognizedRows # {}

(***************************************************************************)
(* Vocabulary of the properties of init.                                   *)
(***************************************************************************)
IsDrop(query) == query[1] = "DROP TABLE IF EXISTS"
IsCreate(query) == query[1] = "CREATE TABLE"

\* The statement query was run.
Executes(query) ==
    \E i \in 1..Len(executed) : executed[i].query = query

\* No statement run so far failed.
AllStatementsOk ==
    \A i \in 1..Len(executed) : executed[i].ok

\* init is over: it returned or threw.
InitOver == cpc \in {"returned", "exited", "done", "crashed"}

\* A persisted table with the table_info rows given is dirty: it is absent,
\* or lacks an expected column, or has one with another declared type,
\* nullability or primary-key membership, or has a NOT NULL column the
\* expected schema does not name.
IsDirty(expected, rows) ==
    \/ rows = <<>>
    \/ \E i \in 1..Len(expected) :
          ~\E j \in 1..Len(rows) :
              /\ rows[j].name = expected[i].name
              /\ SameColumn(expected[i], rows[j])
    \/ \E j \in 1..Len(rows) :
          /\ \A i \in 1..Len(expected) : expected[i].name # rows[j].name
          /\ rows[j].notnull

\* The FileShares table was introspected, and was dirty.
FileSharesWasDirty ==
    \E i \in 1..Len(executed) :
        /\ executed[i].query = fsSchemaQuery
        /\ executed[i].ok
        /\ IsDirty(fileSharesColumns, executed[i].rows)

\* Both tables have the expected columns.
ExpectedStore ==
    /\ store.FileShares.columns = TableInfo(fileSharesColumns)
    /\ store.FileSystemEntries.columns = TableInfo(fileSystemEntriesColumns)

\* Both tables are as init creates them.
AsCreatedStore ==
    /\ store.FileShares.columns = CreatedTable(createFsTableQuery)
    /\ store.FileSystemEntries.columns = CreatedTable(createEntriesTableQuery)

(***************************************************************************)
(* C14.  When the FileShares table was dirty or absent at open and no      *)
(* statement failed, init has dropped both tables and created both, the    *)
(* tables have the expected columns and no rows, and init returned         *)
(* success.                                                                *)
(***************************************************************************)
C14_DirtyFileSharesResetsBoth ==
    (InitOver /\ FileSharesWasDirty /\ AllStatementsOk) =>
        /\ initResult = InitSuccess
        /\ Executes(dropFsTableQuery)
        /\ Executes(dropEntriesTableQuery)
        /\ Executes(createFsTableQuery)
        /\ Executes(createEntriesTableQuery)
        /\ store.FileShares = Table(TableInfo(fileSharesColumns), 0)
        /\ store.FileSystemEntries =
                Table(TableInfo(fileSystemEntriesColumns), 0)

(***************************************************************************)
(* C15.  While both tables have the expected columns, as they have when an *)
(* earlier init created them, no step runs a DROP or a CREATE and no step  *)
(* changes a table or its rows.                                            *)
(***************************************************************************)
C15_ExpectedStoreIsLeftAlone ==
    [][(ExpectedStore \/ AsCreatedStore) =>
            /\ store'.FileShares = store.FileShares
            /\ store'.FileSystemEntries = store.FileSystemEntries
            /\ \A i \in (Len(executed) + 1)..Len(executed') :
                    /\ ~IsDrop(executed'[i].query)
                    /\ ~IsCreate(executed'[i].query)]_vars

\* The command ended well on tables as init creates them, both with rows:
\* the journal mode was set and the two tables introspected, nothing else.
C15_Witness ==
    /\ cpc = "done"
    /\ initResult = InitSuccess
    /\ AsCreatedStore
    /\ store.FileShares.rows = MaxRows
    /\ store.FileSystemEntries.rows = MaxRows
    /\ [i \in 1..Len(executed) |-> executed[i].query]
            = <<journalModeQuery, fsSchemaQuery, entriesSchemaQuery>>

(***************************************************************************)
(* C16.  When the creation of the parent directory failed, init returned   *)
(* the path failure that carries the parent directory, and did not go on   *)
(* to open the database: no connection, no statement.                      *)
(***************************************************************************)
C16_MkdirFailureIsAPathFailure ==
    (InitOver /\ mkdirPromise = "rejected") =>
        /\ initResult = InitFailure("CacheDbPathFailure", parentDirectory)
        /\ connection = "null"
        /\ executed = <<>>

(***************************************************************************)
(* C17.  When a statement of init failed, init returned the query failure  *)
(* that carries the text of that statement: nothing thrown, no other       *)
(* statement's text.                                                       *)
(***************************************************************************)
C17_StatementFailureCarriesItsText ==
    (InitOver /\ ~AllStatementsOk) =>
        initResult = InitFailure("CacheDbQueryFailure",
                                 executed[Len(executed)].query)

(***************************************************************************)
(* C18.  A request with an empty target name, or with a share name outside *)
(* the naming grammar, is rejected when the options are parsed: the        *)
(* process exits with no directory made, no database opened and no         *)
(* statement run.  (The command calls no remote service at all.)           *)
(***************************************************************************)
C18_InvalidRequestIsRejectedFirst ==
    (/\ cpc # "parse"
     /\ \/ args.targetItem = <<>>
        \/ ~MatchesShareGrammar(args.fileShare)) =>
        /\ cpc = "exited"
        /\ mkdirPromise = "none"
        /\ connection = "null"
        /\ executed = <<>>
        /\ initResult = InitFailure("none", <<>>)

(***************************************************************************)
(* C19.  The cache holds exactly the entries of the directories listed so  *)
(* far: every listing is written to the FileSystemEntries table when it is *)
(* obtained, before its entries are matched or enqueued.                   *)
(***************************************************************************)
C19_ListingsAreCachedFirst ==
    store.FileSystemEntries.rows = EntriesListed(listings)

(***************************************************************************)
(* C20.  Under End at most one match object is written, and a finished End *)
(* run has written the first element, and it alone, of what a Continue run *)
(* over the same scopes and trees writes: nothing when that is nothing.    *)
(* A Continue run writes the occurrences in the order of the listings and, *)
(* within a listing, of its entries; until the first match a run does not  *)
(* depend on the match behaviour ($shouldBreak is unset, nothing was       *)
(* broken off), so the listings of the End run are the first listings of   *)
(* the Continue run, and all of them when the End run wrote nothing.       *)
(***************************************************************************)
\* The occurrences in one listing, in the order of its entries, from entry j.
RECURSIVE MatchesOfListing(_, _)
MatchesOfListing(l, j) ==
    IF j > Len(l.items) THEN <<>>
    ELSE (IF SameName(l.items[j].Name, TargetItemName)
          THEN <<[scope |-> l.scope, Path |-> l.dirPath \o l.items[j].Name]>>
          ELSE <<>>)
            \o MatchesOfListing(l, j + 1)

\* The occurrences in the listings ls, in order.
RECURSIVE MatchesInOrder(_)
MatchesInOrder(ls) ==
    IF ls = <<>> THEN <<>>
    ELSE MatchesOfListing(Head(ls), 1) \o MatchesInOrder(Tail(ls))

\* The match objects written, each as its scope and path.
EmittedSequence ==
    [n \in 1..Len(output) |->
        [scope |-> ScopeOfMatch(output[n]), Path |-> output[n].Path]]

\* The first element of a sequence, as a sequence.
FirstOf(seq) == IF seq = <<>> THEN <<>> ELSE <<Head(seq)>>

C20_EndEmitsTheFirstMatchOfContinue ==
    /\ (pc = "done" /\ MatchBehavior = "Continue") =>
            EmittedSequence = MatchesInOrder(listings)
    /\ MatchBehavior = "End" => Len(output) <= 1
    /\ (pc = "done" /\ MatchBehavior = "End") =>
            /\ EmittedSequence = FirstOf(MatchesInOrder(listings))
            /\ output = <<>> =>
                    \A k \in 1..Len(targetScopes) : WhollyListed(k)
    /\ output = <<>> => ~shouldBreak

\* A finished End run that wrote one match and left a directory it had seen
\* unlisted, which a Continue run goes on to list.
C20_Witness ==
    /\ pc = "done"
    /\ MatchBehavior = "End"
    /\ Len(output) = 1
    /\ EmittedSequence = MatchesInOrder(listings)
    /\ \E n \in 1..Len(items) :
        /\ items[n].IsDirectory
        /\ ListingsOf(items[n]) = {}

(***************************************************************************)
(* C21.  Matches are written in a fixed order.  Scopes are traversed one   *)
(* after another in resolved order: the listing calls, the processed       *)
(* entries and the written matches never go back to an earlier scope, and  *)
(* no call is made for a scope after the current one.  Within a scope the  *)
(* directories are listed first in, first out: the directories listed so   *)
(* far, followed by the queue, are the root and then the directory         *)
(* children in the order they were processed (until End clears the         *)
(* queue).  While a listing is being processed none of its subdirectories  *)
(* has been listed, and within a scope each written path is as deep as    *)
(* the one written before it, or deeper.                                   *)
(***************************************************************************)
\* The directories listed in scope k, in the order of the calls.
ListedIn(k) ==
    LET calls == SelectSeq(listings, LAMBDA l : l.scope = k)
    IN  [n \in 1..Len(calls) |-> calls[n].dirPath]

\* The root of scope k and then the directory children processed in it, in
\* order, each as the path the queue holds for it.
DirectoriesSeen(k) ==
    LET dirs == SelectSeq(items, LAMBDA it : it.scope = k /\ it.IsDirectory)
    IN  <<<<"/">>>> \o [n \in 1..Len(dirs) |-> dirs[n].path \o <<"/">>]

\* seq is made of the first elements of whole.
IsPrefix(seq, whole) ==
    /\ Len(seq) <= Len(whole)
    /\ \A n \in 1..Len(seq) : seq[n] = whole[n]

\* Number of separators of a path: the depth of what it names.
Depth(p) == Cardinality({i \in 1..Len(p) : p[i] = "/"})

\* p is the path of something below the directory dir.
Below(p, dir) ==
    /\ Len(p) > Len(dir)
    /\ SubSeq(p, 1, Len(dir)) = dir

C21_ScopesInOrderDirectoriesFirstInFirstOut ==
    /\ \A n \in 1..Len(listings) :
        /\ listings[n].scope <= scopeIdx
        /\ n > 1 => listings[n - 1].scope <= listings[n].scope
    /\ \A n \in 2..Len(items) : items[n - 1].scope <= items[n].scope
    /\ \A n \in 2..Len(output) :
        LET before == ScopeOfMatch(output[n - 1])
            after == ScopeOfMatch(output[n])
        IN  /\ before <= after
            /\ before = after =>
                    Depth(output[n - 1].Path) <= Depth(output[n].Path)
    /\ \A k \in 1..Len(targetScopes) :
            k < scopeIdx => IsPrefix(ListedIn(k), DirectoriesSeen(k))
    /\ scopeIdx <= Len(targetScopes) =>
        LET listed == ListedIn(scopeIdx)
            seen == DirectoriesSeen(scopeIdx)
        IN  /\ IsPrefix(listed, seen)
            /\ (pc \in {"while", "foreach"}
                    /\ (MatchBehavior # "End" \/ output = <<>>)) =>
                    listed \o queue = seen
    /\ pc = "foreach" =>
            \A n \in 1..Len(listings) :
                listings[n].scope = scopeIdx =>
                    ~Below(listings[n].dirPath, dirPath)

\* A finished run that listed two sibling directories, in the order they
\* were processed, and wrote a match found in one of them.
C21_Witness ==
    /\ pc = "done"
    /\ \E k \in 1..Len(targetScopes) :
        /\ Len(ListedIn(k)) = 3
        /\ Depth(ListedIn(k)[2]) = 2
        /\ Depth(ListedIn(k)[3]) = 2
        /\ \E n \in 1..Len(output) :
            /\ ScopeOfMatch(output[n]) = k
            /\ Depth(output[n].Path) = 2

(***************************************************************************)
(* C22.  When the FileShares table was clean at open, the                  *)
(* FileSystemEntries table was dirty or absent and no statement failed,    *)
(* init has dropped and created the FileSystemEntries table, which has the *)
(* expected columns and no rows, has run no DROP and no CREATE of the      *)
(* FileShares table, and returned success; and while the FileShares table  *)
(* is clean no step changes it or its rows.                                *)
(***************************************************************************)
\* The FileShares table was introspected, and was clean.
FileSharesWasClean ==
    \E i \in 1..Len(executed) :
        /\ executed[i].query = fsSchemaQuery
        /\ executed[i].ok
        /\ ~IsDirty(fileSharesColumns, executed[i].rows)

\* The FileSystemEntries table was introspected, and was dirty.
EntriesWasDirty ==
    \E i \in 1..Len(executed) :
        /\ executed[i].query = entriesSchemaQuery
        /\ executed[i].ok
        /\ IsDirty(fileSystemEntriesColumns, executed[i].rows)

C22_DirtyEntriesAloneAreReset ==
    /\ [](InitOver /\ FileSharesWasClean /\ EntriesWasDirty /\ AllStatementsOk
            => /\ initResult = InitSuccess
               /\ Executes(dropEntriesTableQuery)
               /\ Executes(createEntriesTableQuery)
               /\ ~Executes(dropFsTableQuery)
               /\ ~Executes(createFsTableQuery)
               /\ store.FileSystemEntries =
                        Table(TableInfo(fileSystemEntriesColumns), 0))
    /\ [][~IsDirty(fileSharesColumns, store.FileShares.columns)
            => store'.FileShares = store.FileShares]_vars

(***************************************************************************)
(* C23.  Once a listing call has failed the run is halted with that        *)
(* failure as its error: no directory is listed after it, in the scope of  *)
(* the failure or in a later one, no second call fails, and what was       *)
(* written before the failure is still the beginning of the output.        *)
(***************************************************************************)
C23_ListingFailureHaltsTheRun ==
    failures # <<>> =>
        /\ pc = "halted"
        /\ error = "ListingFailed"
        /\ Len(failures) = 1
        /\ Len(listings) = failures[1].listed
        /\ IsPrefix(failures[1].output, output)

(***************************************************************************)
(* C24.  When the search command has ended, by whichever exit path (the    *)
(* options rejected, init failed, init threw, init succeeded), the         *)
(* connection of the cache store is not open: it was never opened or it    *)
(* has been closed.                                                        *)
(***************************************************************************)
\* The search command is over.
SearchOver == cpc \in {"exited", "done", "crashed"}

C24_ConnectionIsReleasedOnEveryExit ==
    SearchOver => connection # "open"

(***************************************************************************)
(* C25.  From every persisted state of the two tables (each absent, dirty  *)
(* or clean, a state an interrupted init left behind included), once init  *)
(* has returned success both tables are present and clean by the matching  *)
(* rule, which leaves a following init nothing to reset.                   *)
(***************************************************************************)
C25_SuccessLeavesBothTablesClean ==
    (InitOver /\ initResult = InitSuccess) =>
        /\ ~IsDirty(fileSharesColumns, store.FileShares.columns)
        /\ ~IsDirty(fileSystemEntriesColumns, store.FileSystemEntries.columns)

(***************************************************************************)
(* C26.  The stop decision is taken on a match only.  $shouldBreak is set  *)
(* only under End and ScopeEnd and only when a match of the current scope  *)
(* has been written; a run that ended before its last scope wrote a match  *)
(* in the scope it ended in; in a finished run every scope up to the first *)
(* one with a match has been traversed; and under End and ScopeEnd all     *)
(* matches written belong to one scope, the scopes before it having none.  *)
(***************************************************************************)
\* The match objects written in scope k.
MatchesIn(k) == {n \in 1..Len(output) : ScopeOfMatch(output[n]) = k}

\* The run is over and left scopes untraversed.
EndedEarly == pc = "done" /\ scopeIdx <= Len(targetScopes)

C26_StopOnlyAfterAMatch ==
    /\ shouldBreak =>
        /\ MatchBehavior \in {"End", "ScopeEnd"}
        /\ MatchesIn(scopeIdx) # {}
    /\ EndedEarly => shouldBreak
    /\ pc = "done" =>
        \A k \in 1..Len(targetScopes) :
            (\A j \in 1..(k - 1) : MatchesIn(j) = {}) =>
                /\ ListedIn(k) # <<>>
                /\ MatchesIn(k) = {} => WhollyListed(k)
    /\ MatchBehavior \in {"End", "ScopeEnd"} =>
        \A n \in 1..Len(output) : ScopeOfMatch(output[n]) = scopeIdx

\* A finished ScopeEnd run over three scopes: the first had an entry and no
\* match, the second a match, the third was not traversed.
C26_Witness ==
    /\ pc = "done"
    /\ MatchBehavior = "ScopeEnd"
    /\ Len(targetScopes) = 3
    /\ scopeIdx = 2
    /\ \E n \in 1..Len(items) : items[n].scope = 1
    /\ MatchesIn(1) = {}
    /\ MatchesIn(2) # {}
    /\ ListedIn(3) = <<>>

(***************************************************************************)
(* C27.  Every run over finite trees ends, and when it has ended the queue *)
(* is empty.  No directory is listed twice in a scope, the root included   *)
(* (one traversal per scope at most).  A finished Continue run has listed  *)
(* every directory of every scope exactly once, a finished ScopeEnd run    *)
(* every directory of the scope it ended in and of the scopes before it,   *)
(* and when a scope is left its queue is empty.                            *)
(***************************************************************************)
\* The script is over: it ran to its end or stopped with a terminating error.
Terminated == pc \in {"done", "failed"}

\* No two listing calls of scope k are for the same directory.
ListedOnce(k) ==
    \A n, m \in 1..Len(ListedIn(k)) :
        ListedIn(k)[n] = ListedIn(k)[m] => n = m

C27_RunsTerminateListingOnce ==
    /\ <>Terminated
    /\ [](/\ \A k \in 1..Len(targetScopes) : ListedOnce(k)
          /\ pc \in {"scopes", "done"} => queue = <<>>
          /\ (pc = "done" /\ MatchBehavior \in {"Continue", "ScopeEnd"}) =>
                \A k \in 1..Len(targetScopes) :
                    k <= scopeIdx => WhollyListed(k)
          /\ (pc = "done" /\ MatchBehavior = "Continue") =>
                scopeIdx = Len(targetScopes) + 1)

\* A finished Continue run over two scopes that listed a subdirectory.
C27_Witness ==
    /\ pc = "done"
    /\ MatchBehavior = "Continue"
    /\ Len(targetScopes) >= 2
    /\ \E k \in 1..Len(targetScopes) : Len(ListedIn(k)) >= 3
    /\ queue = <<>>

====
